---- MODULE Spec2Model ----
(***************************************************************************)
(* Conditional-visibility and option-specific-question reconciliation of   *)
(* js/questionRenderers.js: renderQuestionsForStep,                        *)
(* setupConditionalQuestionListeners, refreshConditionalQuestions,         *)
(* handleOptionSpecificQuestions and debounce, over a DOM modelled as the  *)
(* ordered children of the step container (and of an optional             *)
(* .survey-step-content wrapper inside it).                                *)
(***************************************************************************)
EXTENDS Integers, Sequences, FiniteSets, TLC

VARIABLES
    step,      \* name of the step handed to renderQuestionsForStep
    phase,     \* "new" before renderQuestionsForStep ran, "live" after it
               \* returned, "failed" after it threw
    dom,       \* children of the step container, in sibling order
    inner,     \* children of the .survey-step-content wrapper, if any
    resp,      \* surveyData's response store: question id -> response
    timers,    \* pending setTimeout callbacks, with the time left
    obs,       \* per debounced control: time since its last input event
    last,      \* what the handler that ran last did
    tpl,       \* a call of processTemplate: its arguments and its result
    listeners  \* the steps of the survey:response-changed listeners on the
               \* document, in the order they were added

vars ==
    <<step, phase, dom, inner, resp, timers, obs, last, tpl, listeners>>

(***************************************************************************)
(* Program constants and model bounds                                      *)
(***************************************************************************)
DebounceWait == 300
RemoveDelay == 300
\* the clock is read every Quantum units; a timer runs at the first reading
\* at or after its deadline
Quantum == 150
\* at most this many nodes have removal timers pending at once
MaxPending == 1
\* input events counted per burst
MaxBurst == 3

(***************************************************************************)
(* Questions and steps                                                     *)
(***************************************************************************)
QUESTION_TYPES ==
    {"shortText", "longText", "radio", "checkbox", "likert", "rangeSlider",
     "matrix2d", "rankOptions", "tags", "multiValueSlider"}

Rule(qid, operator, value) ==
    [questionId |-> qid, operator |-> operator, value |-> value]

\* a question without conditions, forOptionId or linkedQuestionId;
\* hasOptions: question.options is an array (only choice renderers read it)
Plain(id, type, options) ==
    [id |-> id, type |-> type, options |-> options, hasOptions |-> TRUE,
     conditions |-> FALSE, rules |-> <<>>, forOptionId |-> "",
     linkedQuestionId |-> "", allowComment |-> FALSE]

\* the question with a comment field under its answer control
WithComment(q) == [q EXCEPT !.allowComment = TRUE]

\* the question as its author wrote it when the options were left out
WithoutOptions(q) == [q EXCEPT !.options = {}, !.hasOptions = FALSE]

Conditional(q, rules) ==
    [q EXCEPT !.conditions = TRUE, !.rules = rules]

OptionSpecific(q, optionId, linked) ==
    [q EXCEPT !.forOptionId = optionId, !.linkedQuestionId = linked]

NoOptions == {}
AB == {"a", "b"}
YesNo == {"yes", "no"}

\* "cond": a text trigger T and a radio trigger R, each with a dependent
StepCond ==
    << Plain("T", "shortText", NoOptions),
       Conditional(Plain("X", "shortText", NoOptions),
                   <<Rule("T", "equals", "yes")>>),
       Plain("R", "radio", YesNo),
       Conditional(Plain("Y", "shortText", NoOptions),
                   <<Rule("R", "equals", "yes")>>),
       Plain("Z", "shortText", NoOptions) >>

\* "opt": a checkbox Q1 with one follow-up per option, then a plain question
StepOpt ==
    << Plain("Q1", "checkbox", AB),
       OptionSpecific(Plain("Q2", "shortText", NoOptions), "a", "Q1"),
       OptionSpecific(Plain("Q6", "shortText", NoOptions), "b", "Q1"),
       Plain("Z", "shortText", NoOptions) >>

\* "mix": an option-specific question declared between standard questions
StepMix ==
    << Plain("Q1", "checkbox", {"a"}),
       Conditional(Plain("Y", "shortText", NoOptions),
                   <<Rule("R", "equals", "yes")>>),
       OptionSpecific(Plain("Q2", "shortText", NoOptions), "a", "Q1"),
       Plain("R", "radio", YesNo) >>

\* "both": QB carries a condition set and a forOptionId
StepBoth ==
    << Plain("Q1", "checkbox", {"a"}),
       Plain("L", "longText", NoOptions),
       OptionSpecific(Conditional(Plain("QB", "shortText", NoOptions),
                                  <<Rule("L", "equals", "yes")>>),
                      "a", "Q1") >>

\* "ctrig": the checkbox trigger QT is itself conditional
StepCtrig ==
    << Plain("R", "radio", YesNo),
       Conditional(Plain("QT", "checkbox", {"a"}),
                   <<Rule("R", "equals", "yes")>>),
       OptionSpecific(Plain("QD", "shortText", NoOptions), "a", "QT") >>

\* "plain": no question with conditions, none for an option
StepPlain ==
    << Plain("T", "shortText", NoOptions),
       Plain("Z", "shortText", NoOptions) >>

\* "multi": two questions for the same option of the same trigger
StepMulti ==
    << Plain("Q1", "checkbox", {"a"}),
       OptionSpecific(Plain("Q4", "shortText", NoOptions), "a", "Q1"),
       OptionSpecific(Plain("Q5", "shortText", NoOptions), "a", "Q1"),
       Plain("Z", "shortText", NoOptions) >>

\* "fail": rules with an operator nobody knows (M, H) and without a
\* questionId (N); H is for an option of Q1 as well
StepFail ==
    << Plain("Q1", "checkbox", {"a"}),
       Conditional(Plain("M", "shortText", NoOptions),
                   <<Rule("Q1", "bogus", "")>>),
       Conditional(Plain("N", "shortText", NoOptions),
                   <<Rule("", "equals", "")>>),
       OptionSpecific(Conditional(Plain("H", "shortText", NoOptions),
                                  <<Rule("Q1", "bogus", "")>>),
                      "a", "Q1") >>

\* "throw": three dependents of R: U of a type without renderer, B a radio
\* question without options, Y a text question
StepThrow ==
    << Plain("R", "radio", YesNo),
       Conditional(Plain("U", "signature", NoOptions),
                   <<Rule("R", "equals", "yes")>>),
       Conditional(WithoutOptions(Plain("B", "radio", NoOptions)),
                   <<Rule("R", "equals", "yes")>>),
       Conditional(Plain("Y", "shortText", NoOptions),
                   <<Rule("R", "equals", "yes")>>) >>

\* "dangling": D and HD are for an option of QX, which is no question of the
\* step; HD has conditions as well
StepDangling ==
    << Plain("R", "radio", YesNo),
       OptionSpecific(Plain("D", "shortText", NoOptions), "a", "QX"),
       OptionSpecific(Conditional(Plain("HD", "shortText", NoOptions),
                                  <<Rule("R", "equals", "yes")>>),
                      "a", "QX"),
       Conditional(Plain("Y", "shortText", NoOptions),
                   <<Rule("R", "equals", "yes")>>) >>

\* "comment": the trigger T has a comment field besides its text input
StepComment ==
    << WithComment(Plain("T", "shortText", NoOptions)),
       Conditional(Plain("X", "shortText", NoOptions),
                   <<Rule("T", "equals", "yes")>>) >>

StepNames ==
    {"cond", "opt", "mix", "both", "ctrig", "plain", "multi", "fail", "throw",
     "dangling", "comment"}

Questions(s) ==
    CASE s = "cond" -> StepCond
      [] s = "opt" -> StepOpt
      [] s = "mix" -> StepMix
      [] s = "both" -> StepBoth
      [] s = "ctrig" -> StepCtrig
      [] s = "plain" -> StepPlain
      [] s = "multi" -> StepMulti
      [] s = "fail" -> StepFail
      [] s = "throw" -> StepThrow
      [] s = "dangling" -> StepDangling
      [] s = "comment" -> StepComment

IdsOf(s) == {Questions(s)[i].id : i \in 1..Len(Questions(s))}

\* step.questions.find(q => q.id === id); only used where it exists
QuestionById(s, id) ==
    LET i == CHOOSE i \in 1..Len(Questions(s)) : Questions(s)[i].id = id
    IN  Questions(s)[i]

(***************************************************************************)
(* Response store (surveyData) and condition oracle (conditionEvaluator)   *)
(***************************************************************************)
NoResponse == [value |-> "", checked |-> {}]

\* surveyData.getResponse(id).value of a text or radio question
ValueOf(r, id) == IF id \in DOMAIN r THEN r[id].value ELSE ""

\* linkedResponse.value[optionId] === true
OptionChecked(r, id, optionId) == id \in DOMAIN r /\ optionId \in r[id].checked

EvaluateRule(rule, r) ==
    /\ rule.questionId # ""
    /\ rule.operator = "equals"
    /\ ValueOf(r, rule.questionId) = rule.value

\* shouldShowQuestion(question)
shouldShowQuestion(question, r) ==
    \A i \in 1..Len(question.rules) : EvaluateRule(question.rules[i], r)

(***************************************************************************)
(* The view tree                                                           *)
(***************************************************************************)
QuestionCls == "survey-question"
WrapperCls == "survey-step-content"

\* the wrapper element some pages put inside the step container
WrapperNode ==
    [nid |-> -1, cls |-> WrapperCls, q |-> "", forOptionId |-> "",
     linkedQuestionId |-> "", wired |-> FALSE, opacity |-> 1, checked |-> {}]

\* the state a handler works on; fault: an exception escaped the handler
World(d, i, t) == [dom |-> d, inner |-> i, timers |-> t, fault |-> FALSE]

RECURSIVE DocOrder(_, _)
\* document order: a node, then its descendants, then its next sibling
DocOrder(d, inn) ==
    IF d = <<>> THEN <<>>
    ELSE <<Head(d)>> \o (IF Head(d).cls = WrapperCls THEN inn ELSE <<>>)
                     \o DocOrder(Tail(d), inn)

Doc(w) == DocOrder(w.dom, w.inner)

NidsOf(seq) == {seq[i].nid : i \in 1..Len(seq)}

\* first element of a match list, 0 standing for null
FirstNid(matches) == IF matches = <<>> THEN 0 ELSE Head(matches).nid

NodeOf(w, nid) ==
    LET d == Doc(w) IN d[CHOOSE i \in 1..Len(d) : d[i].nid = nid]

Attached(w, nid) == nid \in NidsOf(Doc(w))

\* document.getElementById(`question-${id}`)
getElementById(w, id) ==
    FirstNid(SelectSeq(Doc(w), LAMBDA n : n.cls = QuestionCls /\ n.q = id))

\* container.querySelector(`.survey-question[data-question-id="${id}"]`)
queryQuestion(w, id) == getElementById(w, id)

\* container.querySelector(
\*   `.survey-question[data-question-id="${id}"][data-for-option-id="${optionId}"]`)
queryOptionQuestion(w, id, optionId) ==
    FirstNid(SelectSeq(Doc(w), LAMBDA n :
        n.cls = QuestionCls /\ n.q = id /\ n.forOptionId = optionId))

\* container.querySelectorAll(`.survey-question[data-linked-question-id="${id}"]`)
queryLinked(w, id) ==
    SelectSeq(Doc(w), LAMBDA n : n.cls = QuestionCls /\ n.linkedQuestionId = id)

\* container.querySelector('.survey-step-content') || container
actualContainer(w) ==
    IF \E i \in 1..Len(w.dom) : w.dom[i].cls = WrapperCls
    THEN "wrapper" ELSE "container"

\* element.parentElement
parentElement(w, nid) ==
    IF nid \in NidsOf(w.dom) THEN "container"
    ELSE IF nid \in NidsOf(w.inner) THEN "wrapper"
    ELSE "none"

Children(w, parent) == IF parent = "wrapper" THEN w.inner ELSE w.dom

WithChildren(w, parent, seq) ==
    IF parent = "wrapper" THEN [w EXCEPT !.inner = seq]
    ELSE [w EXCEPT !.dom = seq]

IndexOf(seq, nid) == CHOOSE i \in 1..Len(seq) : seq[i].nid = nid

\* element.nextSibling, 0 standing for null
nextSibling(w, nid) ==
    LET seq == Children(w, parentElement(w, nid))
        i == IndexOf(seq, nid)
    IN  IF i < Len(seq) THEN seq[i + 1].nid ELSE 0

\* parent.appendChild(node)
appendChild(w, parent, node) ==
    WithChildren(w, parent, Append(Children(w, parent), node))

\* parent.insertBefore(node, ref), ref a child of parent
insertBefore(w, parent, node, ref) ==
    LET seq == Children(w, parent)
        i == IndexOf(seq, ref)
    IN  WithChildren(w, parent,
            SubSeq(seq, 1, i - 1) \o <<node>> \o SubSeq(seq, i, Len(seq)))

\* element.remove(): a no-op on an element that is already detached
remove(w, nid) ==
    [w EXCEPT !.dom = SelectSeq(w.dom, LAMBDA n : n.nid # nid),
              !.inner = SelectSeq(w.inner, LAMBDA n : n.nid # nid)]

\* the identities still referenced: attached nodes and timer closures
UsedIds(w) == NidsOf(Doc(w)) \cup {t.nid : t \in w.timers}

\* identity of the element document.createElement returns next
FreshId(w) ==
    CHOOSE i \in 1..(Cardinality(UsedIds(w)) + 1) :
        /\ i \notin UsedIds(w)
        /\ \A j \in 1..(i - 1) : j \in UsedIds(w)

\* renderQuestion returns null for a type it has no renderer for
RenderOk(question) == question.type \in QUESTION_TYPES

\* renderRadio and renderCheckbox call question.options.forEach / .map: a
\* TypeError when the question has no options
RenderThrows(question) ==
    question.type \in {"radio", "checkbox"} /\ ~question.hasOptions

\* renderQuestion(question, templateData): the outer .survey-question node;
\* a checkbox restores its checked options from the response store
renderQuestion(question, nid, r) ==
    [nid |-> nid, cls |-> QuestionCls, q |-> question.id, forOptionId |-> "",
     linkedQuestionId |-> "", wired |-> FALSE, opacity |-> 1,
     checked |-> IF question.type = "checkbox"
                 THEN {o \in question.options : OptionChecked(r, question.id, o)}
                 ELSE {}]

(***************************************************************************)
(* refreshConditionalQuestions                                             *)
(***************************************************************************)
\* step.questions.findIndex(q => q.id === id)
findIndex(s, id) ==
    CHOOSE i \in 1..Len(Questions(s)) :
        /\ Questions(s)[i].id = id
        /\ \A j \in 1..(i - 1) : Questions(s)[j].id # id

\* the later questions that have a live node in the reconciliation container
LaterAnchors(w, s, questionIndex) ==
    {i \in (questionIndex + 1)..Len(Questions(s)) :
        LET nextQuestion == getElementById(w, Questions(s)[i].id)
        IN  /\ nextQuestion # 0
            /\ parentElement(w, nextQuestion) = actualContainer(w)}

Min(S) == CHOOSE x \in S : \A y \in S : x <= y

InsertConditionalAtEnd(w, s, question, node) ==
    appendChild(w, actualContainer(w), node)

\* insert the newly rendered node before the nearest later question, or append
InsertConditional(w, s, question, node) ==
    LET anchors == LaterAnchors(w, s, findIndex(s, question.id))
    IN  IF anchors # {}
        THEN insertBefore(w, actualContainer(w), node,
                          getElementById(w, Questions(s)[Min(anchors)].id))
        ELSE appendChild(w, actualContainer(w), node)

\* the body of step.questions.forEach in refreshConditionalQuestions
RefreshQuestion(w, s, r, question) ==
    LET shouldShow == shouldShowQuestion(question, r)
        questionElement == getElementById(w, question.id)
    IN  IF ~question.conditions THEN w
        ELSE IF shouldShow /\ questionElement = 0
        THEN IF RenderThrows(question) THEN [w EXCEPT !.fault = TRUE]
             ELSE IF RenderOk(question)
             THEN InsertConditional(w, s, question,
                                    renderQuestion(question, FreshId(w), r))
             ELSE w
        ELSE IF ~shouldShow /\ questionElement # 0
        THEN remove(w, questionElement)
        ELSE w

RECURSIVE RefreshFrom(_, _, _, _)
\* an exception ends the forEach
RefreshFrom(i, w, s, r) ==
    IF i > Len(Questions(s)) \/ w.fault THEN w
    ELSE RefreshFrom(i + 1, RefreshQuestion(w, s, r, Questions(s)[i]), s, r)

refreshConditionalQuestions(w, s, r) == RefreshFrom(1, w, s, r)

\* the next listener of an event runs whether or not an earlier one threw
AndThen(w, listener) == [listener EXCEPT !.fault = @ \/ w.fault]

RECURSIVE RefreshTimes(_, _, _, _)
\* one refresh call per listener the event reaches
RefreshTimes(n, w, s, r) ==
    IF n = 0 THEN w
    ELSE RefreshTimes(
            n - 1,
            AndThen(w, refreshConditionalQuestions([w EXCEPT !.fault = FALSE],
                                                   s, r)),
            s, r)

(***************************************************************************)
(* handleOptionSpecificQuestions                                           *)
(***************************************************************************)
\* a pending setTimeout callback on element ctl of node nid
Timer(kind, nid, ctl, rem) ==
    [kind |-> kind, nid |-> nid, ctl |-> ctl, rem |-> rem, about |-> ""]

\* setTimeout(callback, delay)
setTimeout(w, kind, nid, delay) ==
    [w EXCEPT !.timers =
        @ \cup {[Timer(kind, nid, "", delay) EXCEPT
                    !.about = NodeOf(w, nid).q]}]

\* a removal callback that looks the question's tagged node up when it runs
RunRemovalBySelector(w, t) ==
    LET found == FirstNid(SelectSeq(Doc(w), LAMBDA n :
                    n.cls = QuestionCls /\ n.q = t.about
                                       /\ n.forOptionId # ""))
    IN  IF found = 0 THEN w ELSE remove(w, found)

\* the removal callback: existingElement.remove() on the element the
\* closure holds
RunRemoval(w, t) == remove(w, t.nid)

\* element.style.opacity = value, on an attached or a detached element
SetOpacity(seq, nid, value) ==
    [i \in 1..Len(seq) |->
        IF seq[i].nid = nid THEN [seq[i] EXCEPT !.opacity = value] ELSE seq[i]]

setOpacity(w, nid, value) ==
    [w EXCEPT !.dom = SetOpacity(w.dom, nid, value),
              !.inner = SetOpacity(w.inner, nid, value)]

\* container.insertBefore(node, ref) throws unless ref is a child of container
containerInsertBefore(w, node, ref) ==
    IF parentElement(w, ref) = "container"
    THEN insertBefore(w, "container", node, ref)
    ELSE [w EXCEPT !.fault = TRUE]

\* insert after anchor: before its next sibling, or at the end of container
InsertAfter(w, node, anchor) ==
    LET sibling == nextSibling(w, anchor)
    IN  IF sibling # 0
        THEN containerInsertBefore(w, node, sibling)
        ELSE appendChild(w, "container", node)

\* a placement in front of the option-specific nodes already there
InsertOptionSpecificBeforeGroup(w, questionId, questionElement) ==
    LET checkboxQuestionElement == queryQuestion(w, questionId)
        existingOptionQuestions == queryLinked(w, questionId)
    IN  IF checkboxQuestionElement # 0
        THEN IF Len(existingOptionQuestions) > 0
             THEN containerInsertBefore(w, questionElement,
                                        existingOptionQuestions[1].nid)
             ELSE InsertAfter(w, questionElement, checkboxQuestionElement)
        ELSE appendChild(w, "container", questionElement)

\* a placement that ignores the option-specific nodes already there
InsertOptionSpecificAfterTrigger(w, questionId, questionElement) ==
    LET checkboxQuestionElement == queryQuestion(w, questionId)
    IN  IF checkboxQuestionElement # 0
        THEN InsertAfter(w, questionElement, checkboxQuestionElement)
        ELSE appendChild(w, "container", questionElement)

\* a placement that always takes the fallback: the end of the container
InsertOptionSpecificAtEnd(w, questionId, questionElement) ==
    appendChild(w, "container", questionElement)

\* after the last option-specific sibling of the trigger, else after the
\* trigger's node, else at the end of the container
InsertOptionSpecific(w, questionId, questionElement) ==
    LET checkboxQuestionElement == queryQuestion(w, questionId)
        existingOptionQuestions == queryLinked(w, questionId)
    IN  IF checkboxQuestionElement # 0
        THEN IF Len(existingOptionQuestions) > 0
             THEN InsertAfter(w, questionElement,
                     existingOptionQuestions[Len(existingOptionQuestions)].nid)
             ELSE InsertAfter(w, questionElement, checkboxQuestionElement)
        ELSE appendChild(w, "container", questionElement)

\* the checked branch: create the node, tag it, insert it.  The entrance
\* transition that follows (opacity 0, then 1 after 10 ms) only styles the
\* new node; the node is modelled with the opacity the transition ends on
ShowOptionQuestion(w, r, question, questionId, optionId) ==
    LET questionElement ==
            [renderQuestion(question, FreshId(w), r) EXCEPT
                !.forOptionId = optionId, !.linkedQuestionId = questionId]
    IN  IF RenderThrows(question) THEN [w EXCEPT !.fault = TRUE]
        ELSE IF RenderOk(question)
        THEN InsertOptionSpecific(w, questionId, questionElement)
        ELSE w

\* the unchecked branch: fade the node out and detach it after the delay
HideOptionQuestion(w, existingElement) ==
    setTimeout(setOpacity(w, existingElement, 0), "remove", existingElement,
               RemoveDelay)

\* a handler that fades the node out whenever it finds one
HandleOptionQuestionHiding(w, r, question, questionId, optionId, checked) ==
    LET existingElement == queryOptionQuestion(w, question.id, optionId)
    IN  IF checked /\ existingElement = 0
        THEN ShowOptionQuestion(w, r, question, questionId, optionId)
        ELSE IF existingElement # 0
        THEN HideOptionQuestion(w, existingElement)
        ELSE w

\* the body of optionQuestions.forEach in handleOptionSpecificQuestions
HandleOptionQuestion(w, r, question, questionId, optionId, checked) ==
    LET existingElement == queryOptionQuestion(w, question.id, optionId)
    IN  IF checked /\ existingElement = 0
        THEN ShowOptionQuestion(w, r, question, questionId, optionId)
        ELSE IF ~checked /\ existingElement # 0
        THEN HideOptionQuestion(w, existingElement)
        ELSE w

RECURSIVE handleOptionSpecificQuestions(_, _, _, _, _, _)
\* an exception ends the forEach
handleOptionSpecificQuestions(w, r, optionQuestions, questionId, optionId, checked) ==
    IF optionQuestions = <<>> \/ w.fault THEN w
    ELSE handleOptionSpecificQuestions(
            HandleOptionQuestion(w, r, Head(optionQuestions), questionId,
                                 optionId, checked),
            r, Tail(optionQuestions), questionId, optionId, checked)

(***************************************************************************)
(* renderQuestionsForStep and setupConditionalQuestionListeners            *)
(***************************************************************************)
\* step.questions.filter(q => q.conditions)
questionsWithConditions(s) == SelectSeq(Questions(s), LAMBDA q : q.conditions)

\* step.questions.filter(q => q.forOptionId && q.linkedQuestionId)
optionSpecificQuestions(s) ==
    SelectSeq(Questions(s),
              LAMBDA q : q.forOptionId # "" /\ q.linkedQuestionId # "")

\* step.questions.filter(question => !question.forOptionId)
standardQuestions(s) == SelectSeq(Questions(s), LAMBDA q : q.forOptionId = "")

\* a trigger set that leaves out the triggers of option-specific questions
dependencyIdsOfRules(s) ==
    LET wc == questionsWithConditions(s)
    IN  UNION {{wc[i].rules[j].questionId : j \in 1..Len(wc[i].rules)} :
                i \in 1..Len(wc)} \ {""}

\* the ids the listeners are attached for
dependencyIds(s) ==
    LET wc == questionsWithConditions(s)
        os == optionSpecificQuestions(s)
        ruleIds == UNION {{wc[i].rules[j].questionId : j \in 1..Len(wc[i].rules)} :
                          i \in 1..Len(wc)}
        linkedIds == {os[i].linkedQuestionId : i \in 1..Len(os)}
    IN  (ruleIds \ {""}) \cup linkedIds

\* the early return of setupConditionalQuestionListeners
HasDynamicQuestions(s) ==
    Len(questionsWithConditions(s)) > 0 \/ Len(optionSpecificQuestions(s)) > 0

\* the related option-specific questions of a checkbox-option-change event
relatedOptionQuestions(s, questionId, optionId) ==
    SelectSeq(optionSpecificQuestions(s),
              LAMBDA q : q.linkedQuestionId = questionId
                         /\ q.forOptionId = optionId)

\* listeners go on the elements that are in the container at set-up time
Wire(seq, ids) ==
    [i \in 1..Len(seq) |->
        IF seq[i].cls = QuestionCls /\ seq[i].q \in ids
        THEN [seq[i] EXCEPT !.wired = TRUE] ELSE seq[i]]

setupConditionalQuestionListeners(w, s) ==
    IF ~HasDynamicQuestions(s) THEN w
    ELSE [w EXCEPT !.dom = Wire(w.dom, dependencyIds(s)),
                   !.inner = Wire(w.inner, dependencyIds(s))]

RECURSIVE RenderStandard(_, _, _)
\* an exception ends the forEach
RenderStandard(w, r, qs) ==
    IF qs = <<>> \/ w.fault THEN w
    ELSE LET question == Head(qs)
             hidden == question.conditions /\ ~shouldShowQuestion(question, r)
         IN  RenderStandard(
                IF hidden THEN w
                ELSE IF RenderThrows(question) THEN [w EXCEPT !.fault = TRUE]
                ELSE IF ~RenderOk(question) THEN w
                ELSE appendChild(w, "container",
                                 renderQuestion(question, FreshId(w), r)),
                r, Tail(qs))

RECURSIVE RenderOptionSpecific(_, _, _, _)
RenderOptionSpecific(w, s, r, qs) ==
    IF qs = <<>> \/ w.fault THEN w
    ELSE LET question == Head(qs)
             checked == /\ question.linkedQuestionId \in IdsOf(s)
                        /\ OptionChecked(r, question.linkedQuestionId,
                                         question.forOptionId)
             show == checked /\ RenderOk(question)
             questionElement ==
                 [renderQuestion(question, FreshId(w), r) EXCEPT
                     !.forOptionId = question.forOptionId,
                     !.linkedQuestionId = question.linkedQuestionId]
         IN  RenderOptionSpecific(
                IF checked /\ RenderThrows(question)
                THEN [w EXCEPT !.fault = TRUE]
                ELSE IF show THEN appendChild(w, "container", questionElement)
                ELSE w,
                s, r, Tail(qs))

\* the listeners are set up once every question has been rendered
renderQuestionsForStep(w, s, r) ==
    LET rendered == RenderOptionSpecific(
                        RenderStandard(w, r, standardQuestions(s)),
                        s, r, optionSpecificQuestions(s))
    IN  IF rendered.fault THEN rendered
        ELSE setupConditionalQuestionListeners(rendered, s)

(***************************************************************************)
(* Controls, listeners and debounce                                        *)
(***************************************************************************)
\* the answer control a leaf renderer tags with data-question-id
Control(question) ==
    CASE question.type = "shortText" -> [tagName |-> "INPUT", type |-> "text"]
      [] question.type = "radio" -> [tagName |-> "INPUT", type |-> "radio"]
      [] question.type = "checkbox" -> [tagName |-> "INPUT", type |-> "checkbox"]
      [] question.type = "longText" -> [tagName |-> "TEXTAREA", type |-> ""]
      [] OTHER -> [tagName |-> "DIV", type |-> ""]

\* the two .survey-question containers around it carry data-question-id too
ContainerElement == [tagName |-> "DIV", type |-> ""]

\* the elements of a question's node that match [data-question-id], named
ListenerElements(question) ==
    [answer |-> Control(question), inner |-> ContainerElement,
     outer |-> ContainerElement]

\* a classification that takes every INPUT for a text-style one
eventNameOfAnyInput(element) ==
    IF element.tagName = "INPUT" \/ element.tagName = "TEXTAREA"
    THEN "input" ELSE "change"

\* the event a listener is attached for
eventName(element) ==
    IF element.tagName = "INPUT"
    THEN IF element.type \in {"text", "number", "email", "tel", "url"}
         THEN "input" ELSE "change"
    ELSE IF element.tagName = "TEXTAREA" THEN "input" ELSE "change"

\* the elements whose listener an event of this name reaches as it bubbles
\* from the answer control through both containers
Reached(question, event) ==
    {c \in DOMAIN ListenerElements(question) :
        eventName(ListenerElements(question)[c]) = event}

\* a debounce whose timer is shared by the controls of a node
debounceSharedByNode(ts, key, wait) ==
    {t \in ts : ~(t.kind = "debounce" /\ t.nid = key[1])}
        \cup {Timer("debounce", key[1], key[2], wait)}

\* a debounce that starts a timer without clearing the pending one
debounceWithoutClear(ts, key, wait) ==
    ts \cup {Timer("debounce", key[1], key[2], wait)}

\* the handler debounce(func, wait) returns: clearTimeout, then setTimeout
debounce(ts, key, wait) ==
    {t \in ts : ~(t.kind = "debounce" /\ t.nid = key[1] /\ t.ctl = key[2])}
        \cup {Timer("debounce", key[1], key[2], wait)}

RECURSIVE DebounceAll(_, _)
\* every debounced listener the event reaches restarts its own timer
DebounceAll(ts, keys) ==
    IF keys = {} THEN ts
    ELSE LET k == CHOOSE k \in keys : TRUE
         IN  DebounceAll(debounce(ts, k, DebounceWait), keys \ {k})

\* the debounced listeners an input event on the node's control reaches
InputKeys(node, question) ==
    IF node.wired THEN {<<node.nid, c>> : c \in Reached(question, "input")}
    ELSE {}

\* the textarea createCommentField adds, which has the id comment-ID
CommentField == [tagName |-> "TEXTAREA", type |-> ""]

\* the debounced listener of the node's comment field
CommentKeys(node, question) ==
    IF node.wired /\ question.allowComment /\ eventName(CommentField) = "input"
    THEN {<<node.nid, "comment">>}
    ELSE {}

\* the refresh calls a change event on the node's control causes
ChangeCalls(node, question) ==
    IF node.wired THEN Cardinality(Reached(question, "change")) ELSE 0

(***************************************************************************)
(* State                                                                   *)
(***************************************************************************)
\* what the last handler did: the event, the question and option it was
\* about, whether the node carried listeners, how many debounce timers it
\* started, how many refresh calls it made, whether a refresh call ended it,
\* the questions it handed to handleOptionSpecificQuestions
Did(op, q, o, on, wired, started, calls, final) ==
    [op |-> op, q |-> q, o |-> o, on |-> on, wired |-> wired,
     started |-> started, calls |-> calls, final |-> final, fault |-> FALSE,
     handed |-> {}]

\* a debounced control that never saw an input event
Quiet == [since |-> DebounceWait + Quantum, burst |-> 0, fires |-> 0]

\* the control saw an input event
Heard(o) ==
    LET inBurst == o.since < DebounceWait
    IN  [since |-> 0,
         burst |-> IF ~inBurst THEN 1
                   ELSE IF o.burst < MaxBurst THEN o.burst + 1 ELSE MaxBurst,
         fires |-> IF inBurst THEN o.fires ELSE 0]

HeardAll(ob, keys) ==
    [k \in DOMAIN ob |-> IF k \in keys THEN Heard(ob[k]) ELSE ob[k]]

InitialAnswers(question) ==
    IF question.type = "checkbox"
    THEN {[value |-> "", checked |-> c] : c \in SUBSET question.options}
    ELSE IF question.type \in {"radio", "shortText", "longText"}
    THEN {[value |-> v, checked |-> {}] : v \in {"", "yes"}}
    ELSE {NoResponse}

\* only the answers of the questions the listeners are attached for are read
InitialResponses(s) ==
    {r \in [IdsOf(s) -> {[value |-> v, checked |-> c] :
                            v \in {"", "yes"}, c \in SUBSET AB}] :
        \A id \in IdsOf(s) :
            r[id] \in IF id \in dependencyIds(s)
                      THEN InitialAnswers(QuestionById(s, id))
                      ELSE {NoResponse}}

\* what the step container holds before the render: nothing, or the content
\* wrapper, which only refreshConditionalQuestions looks for
Containers(s) ==
    IF questionsWithConditions(s) = <<>> THEN {<<>>}
    ELSE {<<>>, <<WrapperNode>>}

(***************************************************************************)
(* Template substitution                                                   *)
(***************************************************************************)
\* a text is made of at most this many pieces
MaxPieces == 6

\* what texts are made of: an opening pair, a closing pair, a lone brace,
\* a letter, a blank
Pieces == {<<"{", "{">>, <<"}", "}">>, <<"{">>, <<"a">>, <<" ">>}

RECURSIVE Flatten(_)
Flatten(ps) == IF ps = <<>> THEN <<>> ELSE Head(ps) \o Flatten(Tail(ps))

\* a string value, and the values typeof does not call 'string'
Str(chars) == [kind |-> "string", chars |-> chars]

NotAString ==
    {[kind |-> "number", chars |-> <<>>],
     [kind |-> "undefined", chars |-> <<>>]}

Texts ==
    {Str(Flatten(ps)) :
        ps \in UNION {[1..n -> Pieces] : n \in 0..MaxPieces}} \cup NotAString

\* the values of a data object's properties
Undefined == [defined |-> FALSE, chars |-> <<>>]

Value(chars) == [defined |-> TRUE, chars |-> chars]

Keys == {<<"a">>}

\* the data argument: left out, or an object with some of the keys
NoContext == [given |-> FALSE, map |-> <<>>]

Contexts ==
    {NoContext} \cup
    {[given |-> TRUE, map |-> m] :
        m \in UNION {[K -> {Undefined, Value(<<>>), Value(<<"x">>)}] :
                        K \in SUBSET Keys}}

\* data[key]
Lookup(data, key) ==
    IF key \in DOMAIN data.map THEN data.map[key] ELSE Undefined

RECURSIVE trimStart(_)
trimStart(s) ==
    IF s # <<>> /\ Head(s) = " " THEN trimStart(Tail(s)) ELSE s

RECURSIVE trimEnd(_)
trimEnd(s) ==
    IF s # <<>> /\ s[Len(s)] = " "
    THEN trimEnd(SubSeq(s, 1, Len(s) - 1))
    ELSE s

trimStartOnly(s) == trimStart(s)

\* key.trim()
trim(s) == trimEnd(trimStart(s))

\* /\{\{([^}]+)\}\}/ tried at position i: the position of the match's last
\* character, 0 when it does not match there
MatchAt(chars, i) ==
    IF i + 1 <= Len(chars) /\ chars[i] = "{" /\ chars[i + 1] = "{"
    THEN LET closes == {k \in (i + 2)..Len(chars) : chars[k] = "}"}
         IN  IF closes = {} THEN 0
             ELSE LET k == Min(closes)
                  IN  IF k > i + 2 /\ k + 1 <= Len(chars)
                                   /\ chars[k + 1] = "}"
                      THEN k + 1
                      ELSE 0
    ELSE 0

\* text.replace(regex with the g flag, replacer) from position i on
RECURSIVE replace(_, _, _)
replace(chars, i, data) ==
    IF i > Len(chars) THEN <<>>
    ELSE LET e == MatchAt(chars, i)
         IN  IF e = 0 THEN <<chars[i]>> \o replace(chars, i + 1, data)
             ELSE LET match == SubSeq(chars, i, e)
                      trimmedKey == trim(SubSeq(chars, i + 2, e - 2))
                      found == Lookup(data, trimmedKey)
                  IN  (IF found.defined THEN found.chars ELSE match)
                          \o replace(chars, e + 1, data)

processTemplate(text, data) ==
    IF text.kind # "string" \/ text.chars = <<>> \/ ~data.given
    THEN text
    ELSE Str(replace(text.chars, 1, data))

NoTemplate ==
    [text |-> Str(<<>>), data |-> NoContext, out |-> Str(<<>>),
     done |-> FALSE]

Init ==
    /\ step \in StepNames
    /\ phase = "new"
    /\ dom \in Containers(step)
    /\ inner = <<>>
    /\ resp \in InitialResponses(step)
    /\ timers = {}
    /\ obs = <<>>
    /\ last = Did("none", "", "", FALSE, FALSE, 0, 0, FALSE)
    /\ tpl = NoTemplate
    /\ listeners = <<>>

Now == World(dom, inner, timers)

\* a timer that is due runs before any later event is handled
NoneDue == \A t \in timers : t.rem > 0

Live == phase = "live" /\ NoneDue

Pending(ts, kind) == {t \in ts : t.kind = kind}

Becomes(w, r, l) ==
    /\ dom' = w.dom
    /\ inner' = w.inner
    /\ timers' = w.timers
    /\ resp' = r
    /\ last' = [l EXCEPT !.fault = w.fault]

\* the controls that got a debounced input listener
DebouncedControls(w, s) ==
    UNION {InputKeys(NodeOf(w, n), QuestionById(s, NodeOf(w, n).q))
            \cup CommentKeys(NodeOf(w, n), QuestionById(s, NodeOf(w, n).q)) :
            n \in {m \in NidsOf(Doc(w)) : NodeOf(w, m).cls = QuestionCls}}

\* document.addEventListener('survey:response-changed', ...) at the end of
\* setupConditionalQuestionListeners, which a step without dynamic questions
\* and a render that threw do not reach
addEventListener(ls, s, rendered) ==
    IF rendered.fault \/ ~HasDynamicQuestions(s) THEN ls ELSE Append(ls, s)

RECURSIVE RefreshEach(_, _, _)
\* every listener on the document refreshes the step it was added for
RefreshEach(ls, w, r) ==
    IF ls = <<>> THEN w
    ELSE RefreshEach(
            Tail(ls),
            AndThen(w, refreshConditionalQuestions([w EXCEPT !.fault = FALSE],
                                                   Head(ls), r)),
            r)

\* the initial render of the step into the container
RenderStep ==
    /\ phase = "new"
    /\ LET w == renderQuestionsForStep(Now, step, resp)
       IN  /\ Becomes(w, resp,
                      Did("render", "", "", FALSE, FALSE, 0, 0, FALSE))
           /\ obs' = [k \in DebouncedControls(w, step) |-> Quiet]
           /\ phase' = IF w.fault THEN "failed" ELSE "live"
           /\ listeners' = addEventListener(listeners, step, w)
    /\ UNCHANGED <<step, tpl>>

\* the question ids a survey:response-changed event may carry: none, a
\* question that triggers nothing (of this step or of another), a trigger
NoticeIds(s) == {"", "Z"} \cup dependencyIds(s)

\* a document listener whose refresh also resets the answers of the
\* condition-bearing questions it leaves without a node
ResponseChangedClearing(questionId) ==
    /\ Live
    /\ HasDynamicQuestions(step)
    /\ questionId \in NoticeIds(step)
    /\ IF questionId # ""
       THEN LET pass == refreshConditionalQuestions(Now, step, resp)
            IN  Becomes(pass,
                        [id \in DOMAIN resp |->
                            IF /\ QuestionById(step, id).conditions
                               /\ getElementById(pass, id) = 0
                            THEN NoResponse ELSE resp[id]],
                        Did("broadcast", questionId, "", FALSE, FALSE, 0, 1,
                            TRUE))
       ELSE UNCHANGED <<dom, inner, timers, resp, last>>
    /\ UNCHANGED <<tpl, listeners, step, phase, obs>>

\* a document listener that refreshes only for the triggers of the step
ResponseChangedOfTrigger(questionId) ==
    /\ Live
    /\ HasDynamicQuestions(step)
    /\ questionId \in NoticeIds(step)
    /\ IF questionId \in dependencyIds(step)
       THEN Becomes(refreshConditionalQuestions(Now, step, resp), resp,
                    Did("broadcast", questionId, "", FALSE, FALSE, 0, 1, TRUE))
       ELSE IF questionId # ""
       THEN Becomes(Now, resp,
                    Did("broadcast", questionId, "", FALSE, FALSE, 0, 0, FALSE))
       ELSE UNCHANGED <<dom, inner, timers, resp, last>>
    /\ UNCHANGED <<tpl, listeners, step, phase, obs>>

\* the document listener for survey:response-changed; questionId is
\* event.detail.questionId, "" when the event carries none
ResponseChanged(questionId) ==
    /\ Live
    /\ listeners # <<>>
    /\ questionId \in NoticeIds(step)
    /\ IF questionId # ""
       THEN Becomes(RefreshEach(listeners, Now, resp), resp,
                    Did("broadcast", questionId, "", FALSE, FALSE, 0,
                        Len(listeners), TRUE))
       ELSE UNCHANGED <<dom, inner, timers, resp, last>>
    /\ UNCHANGED <<tpl, listeners, step, phase, obs>>

\* the user picks another radio option.  The click fires input, then change:
\* the renderer's change listener saves the response, then the change
\* listeners of the radio and of both containers refresh
RadioChange(nid, v) ==
    /\ Live
    /\ Attached(Now, nid)
    /\ LET node == NodeOf(Now, nid)
           question == QuestionById(step, node.q)
           keys == InputKeys(node, question)
           calls == ChangeCalls(node, question)
           r == [resp EXCEPT ![node.q].value = v]
           heard == World(dom, inner, DebounceAll(timers, keys))
       IN  /\ question.type = "radio"
           /\ v \in question.options
           /\ v # ValueOf(resp, node.q)
           /\ Becomes(RefreshTimes(calls, heard, step, r), r,
                      Did("radio", node.q, v, TRUE, node.wired,
                          Cardinality(keys), calls, calls > 0))
           /\ obs' = HeardAll(obs, keys)
    /\ UNCHANGED <<tpl, listeners, step, phase>>

\* checkbox.checked of the node flips when the user clicks the option
SetChecked(seq, nid, checked) ==
    [i \in 1..Len(seq) |->
        IF seq[i].nid = nid THEN [seq[i] EXCEPT !.checked = checked] ELSE seq[i]]

\* the user toggles a checkbox option.  The click fires input, then change,
\* which reaches, in order: the change listener on the checkbox (a refresh),
\* the renderer's listener on the options container (saveResponse, then
\* checkbox-option-change, which the listener on the question's node hands
\* to handleOptionSpecificQuestions), and the change listeners on both
\* containers (two refreshes)
CheckboxChange(nid, o) ==
    /\ Live
    /\ Attached(Now, nid)
    /\ LET node == NodeOf(Now, nid)
           question == QuestionById(step, node.q)
           checked == o \notin node.checked
           boxes == IF checked THEN node.checked \cup {o} ELSE node.checked \ {o}
           keys == InputKeys(node, question)
           clicked == World(SetChecked(dom, nid, boxes),
                            SetChecked(inner, nid, boxes),
                            DebounceAll(timers, keys))
           onControl == IF node.wired /\ "answer" \in Reached(question, "change")
                        THEN 1 ELSE 0
           first == RefreshTimes(onControl, clicked, step, resp)
           r == [resp EXCEPT ![node.q].checked = boxes]
           related == relatedOptionQuestions(step, node.q, o)
           handled == IF node.wired /\ Len(related) > 0
                      THEN AndThen(first,
                              handleOptionSpecificQuestions(
                                  [first EXCEPT !.fault = FALSE], r, related,
                                  node.q, o, checked))
                      ELSE first
           calls == ChangeCalls(node, question)
           done == RefreshTimes(calls - onControl, handled, step, r)
       IN  /\ question.type = "checkbox"
           /\ o \in question.options
           /\ Cardinality({t.nid : t \in Pending(done.timers, "remove")})
                <= MaxPending
           /\ Becomes(done, r,
                      [Did("checkbox", node.q, o, checked, node.wired,
                           Cardinality(keys), calls, calls > onControl)
                          EXCEPT !.handed =
                              IF node.wired
                              THEN {related[i].id : i \in 1..Len(related)}
                              ELSE {}])
           /\ obs' = HeardAll(obs, keys)
    /\ UNCHANGED <<tpl, listeners, step, phase>>

\* the user types into a text control: an input event
TextInput(nid) ==
    /\ Live
    /\ Attached(Now, nid)
    /\ LET node == NodeOf(Now, nid)
           question == QuestionById(step, node.q)
           keys == InputKeys(node, question)
       IN  /\ question.type = "shortText"
           /\ keys # {}
           /\ timers' = DebounceAll(timers, keys)
           /\ obs' = HeardAll(obs, keys)
           /\ last' = Did("input", node.q, "", FALSE, node.wired,
                          Cardinality(keys), 0, FALSE)
    /\ UNCHANGED <<tpl, listeners, step, phase, dom, inner, resp>>

\* the user types into the comment field of a question: an input event, which
\* on its way up passes the two containers, where only change is listened for
CommentInput(nid) ==
    /\ Live
    /\ Attached(Now, nid)
    /\ LET node == NodeOf(Now, nid)
           question == QuestionById(step, node.q)
           keys == CommentKeys(node, question)
       IN  /\ keys # {}
           /\ timers' = DebounceAll(timers, keys)
           /\ obs' = HeardAll(obs, keys)
           /\ last' = Did("comment", node.q, "", FALSE, node.wired,
                          Cardinality(keys), 0, FALSE)
    /\ UNCHANGED <<tpl, listeners, step, phase, dom, inner, resp>>

\* the user leaves a text control after editing it: the change event reaches
\* the change listeners of both containers, then blur saves the response
TextCommit(nid, v) ==
    /\ Live
    /\ Attached(Now, nid)
    /\ LET node == NodeOf(Now, nid)
           question == QuestionById(step, node.q)
           calls == ChangeCalls(node, question)
       IN  /\ question.type = "shortText"
           /\ node.q \in dependencyIds(step)
           /\ v \in YesNo
           /\ v # ValueOf(resp, node.q)
           /\ Becomes(RefreshTimes(calls, Now, step, resp),
                      [resp EXCEPT ![node.q].value = v],
                      Did("commit", node.q, v, FALSE, node.wired, 0, calls,
                          FALSE))
    /\ UNCHANGED <<tpl, listeners, step, phase, obs>>

\* the user edits a rich-text answer: the editor's text-change callback saves
\* the response.  The hidden textarea that carries data-question-id gets no
\* event, and the editor's input events find only change listeners on the
\* containers: no refresh
EditorChange(nid, v) ==
    /\ Live
    /\ Attached(Now, nid)
    /\ LET node == NodeOf(Now, nid)
           question == QuestionById(step, node.q)
       IN  /\ question.type = "longText"
           /\ node.q \in dependencyIds(step)
           /\ v \in YesNo
           /\ v # ValueOf(resp, node.q)
           /\ resp' = [resp EXCEPT ![node.q].value = v]
           /\ last' = Did("editor", node.q, v, FALSE, node.wired, 0, 0, FALSE)
    /\ UNCHANGED <<tpl, listeners, step, phase, dom, inner, timers, obs>>

\* a timer that is due runs its callback
Fire(t) ==
    /\ phase = "live"
    /\ t \in timers
    /\ t.rem = 0
    /\ LET rest == World(dom, inner, timers \ {t})
           isRefresh == t.kind = "debounce"
           w == IF isRefresh
                THEN refreshConditionalQuestions(rest, step, resp)
                ELSE RunRemoval(rest, t)
           key == <<t.nid, t.ctl>>
       IN  /\ Becomes(w, resp,
                      Did(t.kind, t.about, "", FALSE, FALSE, 0,
                          IF isRefresh THEN 1 ELSE 0, isRefresh))
           /\ obs' = IF isRefresh /\ key \in DOMAIN obs
                     THEN [obs EXCEPT ![key].fires = IF @ < 2 THEN @ + 1 ELSE 2]
                     ELSE obs
    /\ UNCHANGED <<tpl, listeners, step, phase>>

\* the clock moves on to its next reading, once every due timer has run
Advance ==
    /\ phase = "live"
    /\ NoneDue
    /\ timers' = {[t EXCEPT !.rem = IF @ > Quantum THEN @ - Quantum ELSE 0] :
                    t \in timers}
    /\ obs' = [k \in DOMAIN obs |->
                [obs[k] EXCEPT !.since =
                    IF @ < DebounceWait THEN @ + Quantum
                    ELSE DebounceWait + Quantum]]
    /\ UNCHANGED <<tpl, listeners, step, phase, dom, inner, resp, last>>

\* node identities in use never exceed the nodes of a step and the detached
\* nodes that pending timers still hold
NodeIds == 1..(5 + MaxPending)

Next ==
    \/ RenderStep
    \/ \E questionId \in NoticeIds(step) : ResponseChanged(questionId)
    \/ \E nid \in NodeIds, v \in YesNo : RadioChange(nid, v)
    \/ \E nid \in NodeIds, o \in AB : CheckboxChange(nid, o)
    \/ \E nid \in NodeIds : TextInput(nid)
    \/ \E nid \in NodeIds : CommentInput(nid)
    \/ \E nid \in NodeIds, v \in YesNo : TextCommit(nid, v)
    \/ \E nid \in NodeIds, v \in YesNo : EditorChange(nid, v)
    \/ \E t \in timers : Fire(t)
    \/ Advance

Spec == Init /\ [][Next]_vars

\* processTemplate on its own: any text with any data
InitTemplate ==
    /\ step = "plain"
    /\ phase = "new"
    /\ dom = <<>>
    /\ inner = <<>>
    /\ resp = [id \in IdsOf("plain") |-> NoResponse]
    /\ timers = {}
    /\ obs = <<>>
    /\ last = Did("none", "", "", FALSE, FALSE, 0, 0, FALSE)
    /\ tpl \in {[text |-> t, data |-> d, out |-> Str(<<>>), done |-> FALSE] :
                    t \in Texts, d \in Contexts}
    /\ listeners = <<>>

Substitute ==
    /\ ~tpl.done
    /\ tpl' = [tpl EXCEPT !.out = processTemplate(tpl.text, tpl.data),
                          !.done = TRUE]
    /\ UNCHANGED <<step, phase, dom, inner, resp, timers, obs, last,
                   listeners>>

NextTemplate == Substitute

SpecTemplate == InitTemplate /\ [][NextTemplate]_vars

\* renderQuestionsForStep is called at most this many times for a container
MaxRenders == 2

\* the steps of the survey the user moves between
Pages == {"cond", "opt", "plain"}

InitPages == Init /\ step \in Pages

\* the caller empties the container and calls renderQuestionsForStep again,
\* for the same step or for another one; the response store keeps what it has
RenderAgain(s) ==
    /\ Live
    /\ timers = {}
    /\ Len(listeners) < MaxRenders
    /\ LET r == [id \in DOMAIN resp \cup IdsOf(s) |->
                    IF id \in DOMAIN resp THEN resp[id] ELSE NoResponse]
           w == renderQuestionsForStep(World(<<>>, <<>>, {}), s, r)
       IN  /\ Becomes(w, r, Did("render", "", "", FALSE, FALSE, 0, 0, FALSE))
           /\ obs' = [k \in DebouncedControls(w, s) |-> Quiet]
           /\ phase' = IF w.fault THEN "failed" ELSE "live"
           /\ listeners' = addEventListener(listeners, s, w)
           /\ step' = s
    /\ UNCHANGED tpl

NextPages ==
    \/ RenderStep
    \/ \E s \in Pages : RenderAgain(s)
    \/ \E questionId \in NoticeIds(step) : ResponseChanged(questionId)

SpecPages == InitPages /\ [][NextPages]_vars

(***************************************************************************)
(* Properties                                                              *)
(***************************************************************************)
HasWrapper == actualContainer(Now) = "wrapper"

QuestionNodes(w) == SelectSeq(Doc(w), LAMBDA n : n.cls = QuestionCls)

\* every renderable condition-bearing question has a node iff its condition
\* set is satisfied
Synced(s, w, r) ==
    \A i \in 1..Len(Questions(s)) :
        LET q == Questions(s)[i]
        IN  (q.conditions /\ RenderOk(q)) =>
                ((getElementById(w, q.id) # 0) <=> shouldShowQuestion(q, r))

\* C1: when a refresh call has returned, every renderable question with a
\* condition set has a node in the view tree iff its conditions are
\* satisfied by the response store
C1_RefreshSyncsConditional == last.final => Synced(step, Now, resp)

\* C2: from any state the program reaches, a second refresh directly after a
\* first, with the response store unchanged, leaves the view tree as the
\* first left it
C2_RefreshIdempotent ==
    phase = "live" =>
        LET once == refreshConditionalQuestions(Now, step, resp)
            twice == refreshConditionalQuestions(once, step, resp)
        IN  twice.dom = once.dom /\ twice.inner = once.inner

IsStandardNode(s, n) ==
    n.cls = QuestionCls /\ QuestionById(s, n.q).forOptionId = ""

\* C3: after the initial render, the nodes of standard questions stand in
\* the view tree in the order of step.questions, option-specific questions
\* declared between them included; stated for a step container that holds
\* no content wrapper, into which every insertion goes directly
C3_StandardOrder ==
    (phase = "live" /\ ~HasWrapper) =>
        \A i, j \in 1..Len(dom) :
            (i < j /\ IsStandardNode(step, dom[i]) /\ IsStandardNode(step, dom[j]))
                => findIndex(step, dom[i].q) < findIndex(step, dom[j].q)

IsOptionNode(s, n) ==
    n.cls = QuestionCls /\ QuestionById(s, n.q).forOptionId # ""

LinkedOf(s, n) == QuestionById(s, n.q).linkedQuestionId

\* each option-specific node directly follows its trigger's node or another
\* option-specific node of the same trigger
GroupedIn(s, seq) ==
    \A i \in 1..Len(seq) :
        IsOptionNode(s, seq[i]) =>
            /\ i > 1
            /\ seq[i - 1].cls = QuestionCls
            /\ \/ seq[i - 1].q = LinkedOf(s, seq[i])
               \/ /\ IsOptionNode(s, seq[i - 1])
                  /\ LinkedOf(s, seq[i - 1]) = LinkedOf(s, seq[i])

\* C4: after the initial render, the option-specific nodes of a trigger form
\* one run of siblings that starts right after the trigger's node
C4_OptionGroupFollowsTrigger ==
    phase = "live" => (GroupedIn(step, dom) /\ GroupedIn(step, inner))

\* C5: a node whose removal timer is pending is logically absent: the
\* existence check of handleOptionSpecificQuestions does not find it
C5_HiddenNodeLogicallyAbsent ==
    \A t \in Pending(timers, "remove") :
        Attached(Now, t.nid) =>
            queryOptionQuestion(Now, NodeOf(Now, t.nid).q,
                                NodeOf(Now, t.nid).forOptionId) # t.nid

\* the option of an option-specific question is checked on its trigger's node
TriggerChecked(w, q) ==
    \E i \in 1..Len(Doc(w)) :
        /\ Doc(w)[i].cls = QuestionCls
        /\ Doc(w)[i].q = q.linkedQuestionId
        /\ q.forOptionId \in Doc(w)[i].checked

\* the trigger's node is attached and carries the listeners
TriggerWired(w, q) ==
    \E i \in 1..Len(Doc(w)) :
        /\ Doc(w)[i].cls = QuestionCls
        /\ Doc(w)[i].q = q.linkedQuestionId
        /\ Doc(w)[i].wired

\* C6: once no removal timer is pending, an option-specific question (one
\* without a condition set, on a trigger that carries the listeners) has a
\* node iff its option is checked
C6_NodeIffCheckedWhenSettled ==
    (phase = "live" /\ Pending(timers, "remove") = {}) =>
        \A i \in 1..Len(Questions(step)) :
            LET q == Questions(step)[i]
            IN  (q.forOptionId # "" /\ ~q.conditions /\ TriggerWired(Now, q))
                    => ((getElementById(Now, q.id) # 0) <=> TriggerChecked(Now, q))

NoDuplicates(w) ==
    \A i, j \in 1..Len(QuestionNodes(w)) :
        i # j => QuestionNodes(w)[i].q # QuestionNodes(w)[j].q

\* C7: the view tree holds at most one node per question identity
C7_NoDuplicateNodes == phase = "live" => NoDuplicates(Now)

\* C8: while no removal timer is pending, an option-specific node is in the
\* view tree only if its trigger's node is
C8_NoOrphanedNodes ==
    (phase = "live" /\ Pending(timers, "remove") = {}) =>
        \A i \in 1..Len(QuestionNodes(Now)) :
            LET n == QuestionNodes(Now)[i]
            IN  IsOptionNode(step, n) => getElementById(Now, LinkedOf(step, n)) # 0

\* the debounce timers pending for one debounced listener
TimersOf(ts, key) ==
    {t \in Pending(ts, "debounce") : t.nid = key[1] /\ t.ctl = key[2]}

\* C9: a debounced listener refreshes on the trailing edge: while input
\* events arrive less than the debounce interval apart no refresh runs and
\* one timer is pending, due the debounce interval after the latest event;
\* the burst ends in exactly one refresh, run at the first clock reading at
\* or after that instant
C9_TrailingEdgeDebounce ==
    /\ \A k \in DOMAIN obs :
        LET o == obs[k]
            mine == TimersOf(timers, k)
        IN  /\ Cardinality(mine) <= 1
            /\ o.burst = 0 => (mine = {} /\ o.fires = 0)
            /\ (o.burst > 0 /\ o.since < DebounceWait) =>
                   /\ o.fires = 0
                   /\ mine # {}
                   /\ \A t \in mine : t.rem = DebounceWait - o.since
            /\ (o.burst > 0 /\ o.since >= DebounceWait) =>
                   \/ /\ o.fires = 0
                      /\ mine # {}
                      /\ \A t \in mine : t.rem = 0
                      /\ o.since - DebounceWait < Quantum
                   \/ o.fires = 1 /\ mine = {}
    /\ last.op = "debounce" =>
          /\ last.calls = 1
          /\ \E k \in DOMAIN obs :
                obs[k].since >= DebounceWait /\ obs[k].fires = 1

\* three input events less than the debounce interval apart ended in one
\* refresh, the debounce interval after the third
C9_BurstOfThreeRefreshedOnce ==
    /\ last.op = "debounce"
    /\ \E k \in DOMAIN obs :
          obs[k].burst = 3 /\ obs[k].fires = 1 /\ obs[k].since = DebounceWait

\* the text-style input types
TextStyle == {"text", "number", "email", "tel", "url"}

\* elements a listener can be attached to
ElementKinds ==
    [tagName : {"INPUT", "TEXTAREA", "SELECT", "DIV"},
     type : TextStyle \cup {"radio", "checkbox", "range", "date", ""}]

\* C10: text-style inputs and textareas are continuous controls, every other
\* control is discrete; a change on a discrete control that carries the
\* listeners is saved and refreshed within its own handler, which starts no
\* timer
C10_DiscreteRefreshedAtOnce ==
    /\ \A e \in ElementKinds :
          (eventName(e) = "input") <=>
              \/ e.tagName = "INPUT" /\ e.type \in TextStyle
              \/ e.tagName = "TEXTAREA"
    /\ (last.op \in {"radio", "checkbox"} /\ last.wired) =>
          /\ last.calls >= 1
          /\ last.started = 0
          /\ last.final
          /\ IF last.op = "radio"
             THEN ValueOf(resp, last.q) = last.o
             ELSE OptionChecked(resp, last.q, last.o) = last.on

\* a radio change was refreshed at once while a debounce timer was pending
C10_RadioRefreshedWhileDebouncing ==
    /\ last.op = "radio"
    /\ last.wired
    /\ last.calls >= 1
    /\ Pending(timers, "debounce") # {}

\* the ids named by a rule of a question of the step, and the ids an
\* option-specific question of the step is linked to
TriggerSetOf(s) ==
    {id \in IdsOf(s) \cup {Questions(s)[i].linkedQuestionId :
                            i \in 1..Len(Questions(s))} :
        \E i \in 1..Len(Questions(s)) :
            LET q == Questions(s)[i]
            IN  \/ /\ q.conditions
                   /\ \E j \in 1..Len(q.rules) : q.rules[j].questionId = id
                \/ q.forOptionId # "" /\ q.linkedQuestionId = id} \ {""}

\* C11: the trigger set of a step is exactly the ids its rules name and the
\* ids its option-specific questions are linked to; once the render has
\* returned the listeners are on the nodes of those questions only; a step
\* without condition-bearing and option-specific questions has an empty
\* trigger set, no listener, and hence neither refresh call nor timer
C11_TriggerSet ==
    /\ dependencyIds(step) = TriggerSetOf(step)
    /\ (last.op = "render" /\ phase = "live") =>
          \A i \in 1..Len(QuestionNodes(Now)) :
              QuestionNodes(Now)[i].wired
                  <=> QuestionNodes(Now)[i].q \in TriggerSetOf(step)
    /\ (\A i \in 1..Len(Questions(step)) :
            ~Questions(step)[i].conditions /\ Questions(step)[i].forOptionId = "")
          => /\ dependencyIds(step) = {}
             /\ \A i \in 1..Len(QuestionNodes(Now)) : ~QuestionNodes(Now)[i].wired
             /\ last.calls = 0
             /\ timers = {}

\* a step with both kinds of trigger was rendered and its listeners attached
C11_BothKindsOfTrigger ==
    /\ last.op = "render"
    /\ dependencyIds(step) = {"Q1", "R"}
    /\ \E i \in 1..Len(QuestionNodes(Now)) : QuestionNodes(Now)[i].wired

\* C12: a survey:response-changed event that carries a question id runs one
\* full refresh pass of the step, whichever question it names (a trigger of
\* the step, a question that triggers nothing, a question of another step),
\* and leaves the store, the timers and the debounce state alone
C12_BroadcastForcesRefresh ==
    [][(/\ last'.op = "broadcast"
        /\ last'.q # ""
        /\ timers' = timers
        /\ obs' = obs)
       => LET pass == refreshConditionalQuestions(Now, step, resp)
          IN  /\ dom' = pass.dom
              /\ inner' = pass.inner
              /\ last'.calls = 1
              /\ resp' = resp]_vars

\* an event naming a question that is no trigger of the step made the refresh
\* pass insert the node of QB, whose rule had come to hold through the editor
\* while its option was never checked
C12_NonTriggerBroadcastRefreshed ==
    /\ last.op = "broadcast"
    /\ last.q \notin dependencyIds(step) \cup {""}
    /\ step = "both"
    /\ ~OptionChecked(resp, "Q1", "a")
    /\ queryQuestion(Now, "QB") # 0

\* C13: the notification of a checkbox toggle is handed to
\* handleOptionSpecificQuestions with exactly the questions of the step whose
\* linkedQuestionId and forOptionId are the toggled question and option (to
\* nobody when there is none), and the only refresh calls of the click are
\* those of the change listeners the click reaches
C13_OptionToggleRouted ==
    last.op = "checkbox" =>
        /\ last.handed =
              {Questions(step)[i].id : i \in
                  {j \in 1..Len(Questions(step)) :
                      /\ Questions(step)[j].forOptionId = last.o
                      /\ Questions(step)[j].linkedQuestionId = last.q}}
        /\ last.calls =
              IF last.wired
              THEN Cardinality(Reached(QuestionById(step, last.q), "change"))
              ELSE 0

\* the view tree a step ends in
Then == World(dom', inner', timers')

\* the tagged nodes of trigger id that the step created, in document order
NewOptionNodes(id) ==
    SelectSeq(queryLinked(Then, id), LAMBDA n : ~Attached(Now, n.nid))

\* the node the k-th new option-specific node of trigger id has to follow
PlacedAfter(id, k) ==
    IF k > 1 THEN NewOptionNodes(id)[k - 1].nid
    ELSE IF queryLinked(Now, id) = <<>> THEN queryQuestion(Now, id)
    ELSE queryLinked(Now, id)[Len(queryLinked(Now, id))].nid

\* C14: a check that creates the node of an option-specific question puts it
\* directly after the trigger's node when the trigger has no option-specific
\* node yet, and directly after the last such node otherwise
C14_InsertedAfterGroup ==
    [][(phase = "live" /\ last'.op = "checkbox" /\ last'.on) =>
          \A k \in 1..Len(NewOptionNodes(last'.q)) :
              /\ Attached(Then, PlacedAfter(last'.q, k))
              /\ nextSibling(Then, PlacedAfter(last'.q, k))
                    = NewOptionNodes(last'.q)[k].nid]_vars

\* checking a on Q1 put Q2's node between the nodes of Q1 and Z
C14_InsertedAfterTrigger ==
    /\ step = "opt"
    /\ last.op = "checkbox" /\ last.q = "Q1" /\ last.o = "a" /\ last.on
    /\ queryOptionQuestion(Now, "Q2", "a") # 0
    /\ queryQuestion(Now, "Q6") = 0
    /\ nextSibling(Now, queryQuestion(Now, "Q1"))
          = queryOptionQuestion(Now, "Q2", "a")
    /\ nextSibling(Now, queryOptionQuestion(Now, "Q2", "a"))
          = queryQuestion(Now, "Z")

\* the place in document order of the node of question id tagged for optionId
PlaceOf(w, id, optionId) ==
    IndexOf(Doc(w), queryOptionQuestion(w, id, optionId))

\* C15: when several questions are for the toggled option of the toggled
\* question, a check handed to handleOptionSpecificQuestions leaves a node
\* for every one of them, after the trigger's node and in the order the
\* questions are declared in the step
C15_AllInsertedInDeclarationOrder ==
    (last.op = "checkbox" /\ last.on /\ Cardinality(last.handed) > 1) =>
        LET related == relatedOptionQuestions(step, last.q, last.o)
        IN  /\ \A i \in 1..Len(related) :
                  /\ queryOptionQuestion(Now, related[i].id, last.o) # 0
                  /\ IndexOf(Doc(Now), queryQuestion(Now, last.q))
                        < PlaceOf(Now, related[i].id, last.o)
            /\ \A i, j \in 1..Len(related) :
                  i < j => PlaceOf(Now, related[i].id, last.o)
                              < PlaceOf(Now, related[j].id, last.o)

\* one check of a on Q1 put the nodes of Q4 and Q5 between those of Q1 and Z
C15_BothInsertedByOneCheck ==
    /\ step = "multi"
    /\ last.op = "checkbox" /\ last.on
    /\ nextSibling(Now, queryQuestion(Now, "Q1"))
          = queryOptionQuestion(Now, "Q4", "a")
    /\ nextSibling(Now, queryOptionQuestion(Now, "Q4", "a"))
          = queryOptionQuestion(Now, "Q5", "a")
    /\ nextSibling(Now, queryOptionQuestion(Now, "Q5", "a"))
          = queryQuestion(Now, "Z")
    /\ queryQuestion(Now, "Z") # 0

\* node n is tagged as option-specific for trigger id
TaggedFor(n, id) == n.cls = QuestionCls /\ n.linkedQuestionId = id

\* C16: the option-specific nodes of one trigger stand in the order in which
\* they were created, whatever the order of their questions in the step: a
\* check puts every node it creates behind every node of the trigger that
\* was there before
C16_SiblingsInOrderOfCreation ==
    [][(phase = "live" /\ last'.op = "checkbox" /\ last'.on) =>
          \A i, j \in 1..Len(Doc(Then)) :
              (/\ TaggedFor(Doc(Then)[i], last'.q)
               /\ Attached(Now, Doc(Then)[i].nid)
               /\ TaggedFor(Doc(Then)[j], last'.q)
               /\ ~Attached(Now, Doc(Then)[j].nid)) => i < j]_vars

\* b was checked before a: the node of Q6, declared after Q2, precedes Q2's
C16_LaterDeclaredFirst ==
    /\ step = "opt"
    /\ last.op = "checkbox" /\ last.q = "Q1" /\ last.o = "a" /\ last.on
    /\ nextSibling(Now, queryQuestion(Now, "Q1"))
          = queryOptionQuestion(Now, "Q6", "b")
    /\ nextSibling(Now, queryOptionQuestion(Now, "Q6", "b"))
          = queryOptionQuestion(Now, "Q2", "a")
    /\ queryOptionQuestion(Now, "Q2", "a") # 0
    /\ OptionChecked(resp, "Q1", "b")

\* a rule with an operator that is not recognized or without a questionId
Malformed(rule) == rule.operator # "equals" \/ rule.questionId = ""

\* C17: a question with a malformed rule in its condition set never has a
\* node, whatever the store holds, and no handler ends with a fault
C17_MalformedNeverRendered ==
    \A i \in 1..Len(Questions(step)) :
        LET q == Questions(step)[i]
        IN  (q.conditions /\ \E j \in 1..Len(q.rules) : Malformed(q.rules[j]))
                => queryQuestion(Now, q.id) = 0 /\ ~last.fault

\* renderQuestion gives no node for the question: it returns null or throws
FactoryFails(question) == ~RenderOk(question) \/ RenderThrows(question)

\* C18: no handler that refreshes or handles an option toggle ends with a
\* fault, and in a step with a question the factory fails for, once a refresh
\* pass has ended the handler, that question has no node and every other
\* question that only has conditions has a node iff its conditions hold
C18_FactoryFailureContained ==
    /\ last.op # "render" => ~last.fault
    /\ (last.final /\ \E i \in 1..Len(Questions(step)) :
                          FactoryFails(Questions(step)[i])) =>
          \A i \in 1..Len(Questions(step)) :
              LET q == Questions(step)[i]
              IN  (q.conditions /\ q.forOptionId = "") =>
                      IF FactoryFails(q) THEN getElementById(Now, q.id) = 0
                      ELSE getElementById(Now, q.id) # 0
                              <=> shouldShowQuestion(q, resp)

\* C19: a question for an option of a question that is not in the step never
\* has a node, and no handler ends with a fault in such a step
C19_DanglingNeverRendered ==
    \A i \in 1..Len(Questions(step)) :
        LET q == Questions(step)[i]
        IN  (q.forOptionId # "" /\ q.linkedQuestionId \notin IdsOf(step))
                => getElementById(Now, q.id) = 0 /\ ~last.fault

\* C20: a handler that consists of a refresh call (the broadcast listener, a
\* debounce timer) leaves the response store as it was, and in every step
\* the store changes at most at the question whose own renderer saved the
\* answer the user gave
C20_RefreshLeavesStore ==
    [][/\ last'.op \in {"broadcast", "debounce"} => resp' = resp
       /\ \A id \in DOMAIN resp :
              resp'[id] # resp[id] =>
                  /\ last'.op \in {"radio", "checkbox", "commit", "editor"}
                  /\ last'.q = id]_vars

\* a debounced refresh inserted the node of X while the store held answers
C20_RefreshInsertedStoreKept ==
    /\ step = "cond"
    /\ last.op = "debounce" /\ last.final
    /\ queryQuestion(Now, "X") # 0
    /\ ValueOf(resp, "T") = "yes"
    /\ ValueOf(resp, "R") = "yes"

\* the largest member of a set of numbers
Largest(S) == CHOOSE x \in S : \A y \in S : y <= x

\* t[i..j] reads {{name}} with a name of at least one character, none of
\* them a closing brace
IsToken(t, i, j) ==
    /\ 1 <= i /\ i + 4 <= j /\ j <= Len(t)
    /\ t[i] = "{" /\ t[i + 1] = "{"
    /\ t[j - 1] = "}" /\ t[j] = "}"
    /\ \A k \in (i + 2)..(j - 2) : t[k] # "}"

\* a token that is not the tail of a longer one
MaximalToken(t, i, j) ==
    IsToken(t, i, j) /\ ~\E h \in 1..(i - 1) : IsToken(t, h, j)

\* the name without the blanks around it
Trimmed(name) ==
    LET inked == {p \in 1..Len(name) : name[p] # " "}
    IN  IF inked = {} THEN <<>>
        ELSE SubSeq(name, Min(inked), Largest(inked))

HasValue(data, key) == key \in DOMAIN data.map /\ data.map[key].defined

\* the first n characters of t with every token of a defined key replaced
RECURSIVE Substituted(_, _, _)
Substituted(t, n, data) ==
    IF n = 0 THEN <<>>
    ELSE LET starts == {i \in 1..n : MaximalToken(t, i, n)}
         IN  IF starts = {} THEN Append(Substituted(t, n - 1, data), t[n])
             ELSE LET i == CHOOSE h \in starts : TRUE
                      key == Trimmed(SubSeq(t, i + 2, n - 2))
                  IN  Substituted(t, i - 1, data) \o
                          (IF HasValue(data, key) THEN data.map[key].chars
                           ELSE SubSeq(t, i, n))

\* C21: processTemplate replaces every {{name}} token whose trimmed name is
\* a key with a value in the data by that value, leaves every other token
\* as it is, and returns the text itself when it is empty, not a string, or
\* no data is supplied.
C21_TemplateSubstitution ==
    tpl.done =>
        tpl.out = IF tpl.text.kind = "string" /\ tpl.text.chars # <<>>
                        /\ tpl.data.given
                  THEN Str(Substituted(tpl.text.chars, Len(tpl.text.chars),
                                       tpl.data))
                  ELSE tpl.text

\* a token whose name has blanks around a key with a value was replaced
C21_TrimmedTokenReplaced ==
    /\ tpl.done
    /\ tpl.data.given
    /\ \E i, j \in 1..Len(tpl.text.chars) :
        /\ MaximalToken(tpl.text.chars, i, j)
        /\ Trimmed(SubSeq(tpl.text.chars, i + 2, j - 2))
                # SubSeq(tpl.text.chars, i + 2, j - 2)
        /\ HasValue(tpl.data, Trimmed(SubSeq(tpl.text.chars, i + 2, j - 2)))
    /\ tpl.out # tpl.text

\* every question node of the view tree before the step is still there
NothingRemoved ==
    \A n \in NidsOf(Doc(Now)) :
        NodeOf(Now, n).cls = QuestionCls =>
            Attached(Then, n) /\ NodeOf(Then, n).q = NodeOf(Now, n).q

\* the untagged question nodes the step created: those a refresh rendered
NewConditionalNodes ==
    {n \in NidsOf(Doc(Then)) :
        /\ NodeOf(Then, n).cls = QuestionCls
        /\ NodeOf(Then, n).forOptionId = ""
        /\ ~Attached(Now, n)}

\* the indexes after questionIndex of the questions whose node, as
\* getElementById finds it, is a child of the reconciliation container
LaterLive(w, questionIndex) ==
    {j \in (questionIndex + 1)..Len(Questions(step)) :
        LET m == getElementById(w, Questions(step)[j].id)
        IN  m # 0 /\ parentElement(w, m) = actualContainer(w)}

\* C22: a node that a refresh pass renders for the conditional question at
\* index i sits directly before the node of the first later question that
\* has a node in the reconciliation container, and is the last child of
\* that container when no later question has one
C22_InsertedBeforeNextLive ==
    [][(phase = "live" /\ <<dom, inner>>' # <<dom, inner>>
                       /\ NothingRemoved) =>
          \A n \in NewConditionalNodes :
              LET later == LaterLive(Then, findIndex(step, NodeOf(Then, n).q))
              IN  /\ parentElement(Then, n) = actualContainer(Then)
                  /\ nextSibling(Then, n) =
                        IF later = {} THEN 0
                        ELSE getElementById(
                                Then, Questions(step)[Min(later)].id)]_vars

\* answering R put Y's node directly before R's, Q2 between them in the step
\* having no node
C22_InsertedPastAbsentQuestion ==
    /\ step = "mix"
    /\ last.op = "radio" /\ last.calls > 0
    /\ queryQuestion(Now, "Q2") = 0
    /\ queryQuestion(Now, "Y") > queryQuestion(Now, "R")
    /\ queryQuestion(Now, "R") > 0
    /\ nextSibling(Now, queryQuestion(Now, "Y")) = queryQuestion(Now, "R")

\* C23: the node of an option-specific question that an uncheck found stays
\* attached until 300 units after that uncheck: as long as the removal timer
\* the uncheck started has time left, its node is in the view tree
C23_AttachedForWholeDelay ==
    \A t \in Pending(timers, "remove") :
        t.rem > 0 => Attached(Now, t.nid)

\* C24: right after renderQuestionsForStep returned, a refresh pass changes
\* nothing in the view tree, and every option-specific question has a node
\* exactly when the response store has its option checked
C24_RenderAgreesWithRefresh ==
    (phase = "live" /\ last.op = "render") =>
        /\ LET after == refreshConditionalQuestions(Now, step, resp)
           IN  after.dom = dom /\ after.inner = inner /\ ~after.fault
        /\ \A i \in 1..Len(optionSpecificQuestions(step)) :
              LET question == optionSpecificQuestions(step)[i]
              IN  (queryOptionQuestion(Now, question.id,
                                       question.forOptionId) # 0)
                    <=> OptionChecked(resp, question.linkedQuestionId,
                                      question.forOptionId)

\* C25: a trigger question that has a node is wired: an event on a control
\* of a trigger's node calls refreshConditionalQuestions or starts the
\* debounce timer that will, and the toggle of a checkbox option that has
\* option-specific questions is handed to handleOptionSpecificQuestions
C25_PresentTriggerWired ==
    (/\ last.op \in {"radio", "checkbox", "input", "commit", "editor"}
     /\ last.q \in dependencyIds(step)) =>
        /\ last.calls > 0 \/ last.started > 0
        /\ (/\ last.op = "checkbox"
            /\ relatedOptionQuestions(step, last.q, last.o) # <<>>)
                => last.handed # {}

\* C26: one survey:response-changed notification makes one refresh pass,
\* over the step rendered last, however often steps were rendered before,
\* and leaves no node of a question of another step in the view tree
C26_BroadcastScopedToLastStep ==
    (last.op = "broadcast" /\ last.q # "") =>
        /\ last.calls = 1
        /\ \A n \in NidsOf(Doc(Now)) :
              NodeOf(Now, n).cls = QuestionCls =>
                  NodeOf(Now, n).q \in IdsOf(step)

\* the timers that ran in the step
Fired == timers \ timers'

\* C27: a removal timer detaches only the node its uncheck found: when it
\* fires while that node is attached, no other node leaves the view tree,
\* and when that node is already detached, the view tree stays as it is,
\* with whatever node the question got in the meantime
C27_TimerDetachesOnlyItsNode ==
    [][(phase = "live" /\ last'.op = "remove") =>
          \A t \in Fired :
              /\ NidsOf(Doc(Now)) \ NidsOf(Doc(Then)) \subseteq {t.nid}
              /\ ~Attached(Now, t.nid) => (dom' = dom /\ inner' = inner)]_vars

\* the timer of an earlier uncheck of a fired while Q2 had a newer node,
\* which is still there
C27_NewerNodeSurvives ==
    /\ step = "opt"
    /\ last.op = "remove" /\ last.q = "Q2"
    /\ queryOptionQuestion(Now, "Q2", "a") # 0
    /\ OptionChecked(resp, "Q1", "a")

\* C28: the node that a check makes handleOptionSpecificQuestions insert is
\* a child of the parent refreshConditionalQuestions inserts into, wrapper or
\* not, next to the trigger's node, and the insertion raises no fault
C28_SameParentForBothInsertions ==
    (last.op = "checkbox" /\ last.on) =>
        /\ ~last.fault
        /\ \A id \in last.handed :
              LET inserted == queryOptionQuestion(Now, id, last.o)
              IN  inserted # 0 =>
                    /\ parentElement(Now, inserted) = actualContainer(Now)
                    /\ parentElement(Now, inserted)
                          = parentElement(Now, queryQuestion(Now, last.q))

\* whether the toggle of optionId on questionId is about the question
Matches(question, questionId, optionId) ==
    question.linkedQuestionId = questionId /\ question.forOptionId = optionId

\* the children of a parent that are nodes of questions without a condition
\* set, the questions of the toggle (questionId, optionId) left out
FrameOf(seq, questionId, optionId) ==
    SelectSeq(seq, LAMBDA n :
        /\ n.cls = QuestionCls
        /\ ~QuestionById(step, n.q).conditions
        /\ ~Matches(QuestionById(step, n.q), questionId, optionId))

\* the same, without what the user's own click changes on a node
Bare(seq) == [i \in 1..Len(seq) |-> [seq[i] EXCEPT !.checked = {}]]

\* the toggle finds every question it is about in the state that makes
\* handleOptionSpecificQuestions take neither branch
NothingToDo ==
    /\ last' # last
    /\ last'.handed # {}
    /\ \A id \in last'.handed :
          last'.on <=> (queryOptionQuestion(Now, id, last'.o) # 0)

HeardNow(k) == obs'[k] # obs[k] /\ obs'[k].since = 0

\* C30: debounce timers are per control.  An input event on one control
\* leaves the pending timer of every other control as it is, and every
\* control that heard input has its own timer, due the debounce interval
\* after its own last event, and gets its own refresh call
C30_DebouncePerControl ==
    /\ [](\A k \in DOMAIN obs :
            /\ (obs[k].burst > 0 /\ obs[k].since < DebounceWait) =>
                  \E t \in timers :
                      /\ TimersOf(timers, k) = {t}
                      /\ t.rem = DebounceWait - obs[k].since
            /\ (obs[k].burst > 0 /\ TimersOf(timers, k) = {}) =>
                  obs[k].fires = 1)
    /\ [][phase = "live" =>
            \A k \in DOMAIN obs :
                HeardNow(k) =>
                    \A j \in DOMAIN obs \ {k} :
                        /\ TimersOf(timers', j) = TimersOf(timers, j)
                        /\ obs'[j] = obs[j]]_vars

\* the input of T and its comment field heard events in the same window:
\* the refresh of the first has run, the timer of the second is pending
C30_TwoControlsOneWindow ==
    /\ step = "comment"
    /\ last.op = "debounce"
    /\ \E k, j \in DOMAIN obs :
          /\ k[1] = j[1] /\ k[2] # j[2]
          /\ obs[k].burst > 0 /\ obs[k].fires = 1
          /\ obs[k].since < DebounceWait + Quantum
          /\ obs[j].burst > 0 /\ obs[j].fires = 0
          /\ \E t \in TimersOf(timers, j) : t.rem > 0

====
